---- MODULE Spec2Model ----
(***************************************************************************)
(* A model of modbus/functions.py: the Modbus function objects, the        *)
(* memoized function_factory that builds them from request PDUs, their     *)
(* execution against a route map and the response PDUs they create.        *)
(*                                                                         *)
(* A PDU is a sequence of bytes (naturals below 256).  A function instance *)
(* is a record in the heap, found by its identity; the memoize cache maps  *)
(* the raw PDU to the identity of the instance built for it.  `returned`   *)
(* and `assigned` keep what the callers have seen and done: the instances  *)
(* the factory returned for each PDU, and the value a caller last assigned *)
(* to an instance.                                                         *)
(***************************************************************************)
EXTENDS Integers, Sequences, FiniteSets, TLC

VARIABLES heap, cache, op, result, returned, assigned

vars == <<heap, cache, op, result, returned, assigned>>

(***************************************************************************)
(* Bounds of the model.                                                    *)
(***************************************************************************)
\* Number of entries the memoize cache may hold before the model stops
\* feeding it new PDUs (the cache of the program is unbounded).
MaxCache == 2

\* Longest sequence of bits handed to SingleBitResponse.create_response_pdu.
MaxData == 10

\* Longest sequence of registers handed to
\* MultiBitResponse.create_response_pdu.
MaxRegisters == 3

(***************************************************************************)
(* Function codes and class attributes.                                    *)
(***************************************************************************)
READ_COILS == 1
READ_DISCRETE_INPUTS == 2
READ_HOLDING_REGISTERS == 3
READ_INPUT_REGISTERS == 4
WRITE_SINGLE_COIL == 5
WRITE_SINGLE_REGISTER == 6

ReadClasses ==
    {"ReadCoils", "ReadDiscreteInputs", "ReadHoldingRegisters", "ReadInputRegisters"}

WriteClasses == {"WriteSingleCoil", "WriteSingleRegister"}

SingleBitClasses == {"ReadCoils", "ReadDiscreteInputs"}

MultiBitClasses == {"ReadHoldingRegisters", "ReadInputRegisters"}

function_code_to_function_map ==
    (READ_COILS :> "ReadCoils") @@
    (READ_DISCRETE_INPUTS :> "ReadDiscreteInputs") @@
    (READ_HOLDING_REGISTERS :> "ReadHoldingRegisters") @@
    (READ_INPUT_REGISTERS :> "ReadInputRegisters") @@
    (WRITE_SINGLE_COIL :> "WriteSingleCoil") @@
    (WRITE_SINGLE_REGISTER :> "WriteSingleRegister")

function_code(cls) ==
    CASE cls = "ReadCoils" -> READ_COILS
      [] cls = "ReadDiscreteInputs" -> READ_DISCRETE_INPUTS
      [] cls = "ReadHoldingRegisters" -> READ_HOLDING_REGISTERS
      [] cls = "ReadInputRegisters" -> READ_INPUT_REGISTERS
      [] cls = "WriteSingleCoil" -> WRITE_SINGLE_COIL
      [] cls = "WriteSingleRegister" -> WRITE_SINGLE_REGISTER

max_quantity(cls) ==
    CASE cls = "ReadCoils" -> 2000
      [] cls = "ReadDiscreteInputs" -> 2000
      [] cls = "ReadHoldingRegisters" -> 125
      [] cls = "ReadInputRegisters" -> 125

(***************************************************************************)
(* struct: big-endian packing of unsigned bytes (B) and 16-bit words (H).  *)
(* A packer answers with a status and the bytes; a value outside the range *)
(* of its format is a struct.error.                                        *)
(***************************************************************************)
unpack_B(bytes) == bytes[1]

unpack_BHH(pdu) == <<pdu[1], pdu[2] * 256 + pdu[3], pdu[4] * 256 + pdu[5]>>

IsB(v) == v >= 0 /\ v <= 255

IsH(v) == v >= 0 /\ v <= 65535

bytes_H(v) == <<v \div 256, v % 256>>

pack_BHH(b, h1, h2) ==
    IF IsB(b) /\ IsH(h1) /\ IsH(h2)
    THEN [status |-> "ok", bytes |-> <<b>> \o bytes_H(h1) \o bytes_H(h2)]
    ELSE [status |-> "struct.error", bytes |-> <<>>]

(***************************************************************************)
(* Construction.  A constructor answers with a status and, when it did not *)
(* raise, the instance.                                                    *)
(***************************************************************************)
Raise(exception) == [status |-> exception]

Built(instance) == [status |-> "ok", self |-> instance]

\* ReadFunction.__init__ with the upper test off by one.
ReadFunction_init_below_max(cls, starting_address, quantity) ==
    IF quantity < 1 \/ quantity >= max_quantity(cls)
    THEN Raise("IllegalDataValueError")
    ELSE Built([cls |-> cls, starting_address |-> starting_address,
                quantity |-> quantity])

ReadFunction_init(cls, starting_address, quantity) ==
    IF quantity < 1 \/ quantity > max_quantity(cls)
    THEN Raise("IllegalDataValueError")
    ELSE Built([cls |-> cls, starting_address |-> starting_address,
                quantity |-> quantity])

\* The setter of WriteSingleCoil testing a range in place of the two values.
WriteSingleCoil_value_in_range(self, value) ==
    IF value < 0 \/ value > 65280
    THEN Raise("IllegalDataValueError")
    ELSE Built([cls |-> self.cls, address |-> self.address, value |-> value])

\* The value setter of WriteSingleCoil: value must be 0 or 0xFF00.
WriteSingleCoil_value(self, value) ==
    IF value \notin {0, 65280}
    THEN Raise("IllegalDataValueError")
    ELSE Built([cls |-> self.cls, address |-> self.address, value |-> value])

\* The setter of WriteSingleRegister clamping in place of raising.
WriteSingleRegister_value_clamping(self, value) ==
    Built([cls |-> self.cls, address |-> self.address,
           value |-> IF value < 0 THEN 0
                     ELSE IF value > 65535 THEN 65535 ELSE value])

\* The value setter of WriteSingleRegister: 0 <= value <= 0xFFFF.
WriteSingleRegister_value(self, value) ==
    IF 0 <= value /\ value <= 65535
    THEN Built([cls |-> self.cls, address |-> self.address, value |-> value])
    ELSE Raise("IllegalDataValueError")

\* Assignment to self.value, dispatched on the class of the instance.
set_value(self, value) ==
    IF self.cls = "WriteSingleCoil"
    THEN WriteSingleCoil_value(self, value)
    ELSE WriteSingleRegister_value(self, value)

\* self.address = address; self.value = value (the latter through the setter).
WriteSingleValueFunction_init(cls, address, value) ==
    set_value([cls |-> cls, address |-> address], value)

\* cls(first, second)
new(cls, first, second) ==
    IF cls \in ReadClasses
    THEN ReadFunction_init(cls, first, second)
    ELSE WriteSingleValueFunction_init(cls, first, second)

create_from_request_pdu(cls, pdu) ==
    LET fields == unpack_BHH(pdu)
    IN  new(cls, fields[2], fields[3])

\* A function_factory that answers an unknown function code with the fault
\* of an illegal value.
function_factory_illegal_value(pdu) ==
    LET code == unpack_B(pdu)
    IN  IF code \notin DOMAIN function_code_to_function_map
        THEN Raise("IllegalDataValueError")
        ELSE create_from_request_pdu(function_code_to_function_map[code], pdu)

\* The body of function_factory, without the memoize decorator.  A function
\* code that is no key of function_code_to_function_map raises KeyError.
function_factory(pdu) ==
    LET code == unpack_B(pdu)
    IN  IF code \notin DOMAIN function_code_to_function_map
        THEN Raise("KeyError")
        ELSE create_from_request_pdu(function_code_to_function_map[code], pdu)

(***************************************************************************)
(* Inputs.                                                                 *)
(***************************************************************************)
\* (function code, first field, second field) of the request PDUs fed to
\* the program; the PDUs themselves are their five bytes.
Requests ==
    ({1, 2} \X {100} \X {0, 1, 3, 2000, 2001}) \cup
    ({3, 4} \X {100} \X {0, 1, 125, 126}) \cup
    ({5} \X {100} \X {0, 1, 65280}) \cup
    ({6} \X {100} \X {0, 65535}) \cup
    {<<0, 100, 1>>, <<7, 100, 1>>, <<1, 101, 3>>, <<1, 65535, 2>>}

PDUs == {pack_BHH(r[1], r[2], r[3]).bytes : r \in Requests}

\* Values assigned to the value attribute of a write function.
Values == {-1, 0, 4660, 65280, 65535, 65536}

(***************************************************************************)
(* The heap of live instances.                                             *)
(***************************************************************************)
NoOp == [name |-> "", cls |-> "", pdu |-> <<>>, args |-> <<>>, self |-> 0,
         slave_id |-> 0, route_map |-> <<>>, data |-> <<>>]

\* status: "ok" or the exception raised; returns: what the call handed back
\* ("instance", "values", "bytes", "None"; "" when it raised).  lookups and
\* calls are the arguments route_map.match and the endpoints were given;
\* events is the order in which a read execute did the two, as
\* <<"match", address>> and <<"call", address>>.
NoResult == [status |-> "", returns |-> "", instance |-> 0, values |-> <<>>,
             bytes |-> <<>>, lookups |-> <<>>, calls |-> <<>>, events |-> <<>>]

\* The identity given to the next instance.
Alloc(h) ==
    CHOOSE i \in 1..(Cardinality(DOMAIN h) + 1) :
        i \notin DOMAIN h /\ \A j \in 1..(i - 1) : j \in DOMAIN h

Cached(c) == {c[p] : p \in DOMAIN c}

(***************************************************************************)
(* memoize(function_factory)(pdu)                                          *)
(***************************************************************************)
\* A cache keyed on the decoded fields in place of the raw bytes.
CacheKey_fields(pdu) == <<unpack_BHH(pdu)[2], unpack_BHH(pdu)[3]>>

CacheKey(pdu) == pdu

\* A cache that decodes the PDU again into the instance it holds.
FactoryHit_decoded(pdu) ==
    /\ CacheKey(pdu) \in DOMAIN cache
    /\ op' = [NoOp EXCEPT !.name = "function_factory", !.pdu = pdu]
    /\ result' = [NoResult EXCEPT !.status = "ok", !.returns = "instance",
                                  !.instance = cache[CacheKey(pdu)]]
    /\ returned' = returned \cup {<<pdu, cache[CacheKey(pdu)]>>}
    /\ heap' = [heap EXCEPT ![cache[CacheKey(pdu)]] = function_factory(pdu).self]
    /\ UNCHANGED <<cache, assigned>>

FactoryHit(pdu) ==
    /\ CacheKey(pdu) \in DOMAIN cache
    /\ op' = [NoOp EXCEPT !.name = "function_factory", !.pdu = pdu]
    /\ result' = [NoResult EXCEPT !.status = "ok", !.returns = "instance",
                                  !.instance = cache[CacheKey(pdu)]]
    /\ returned' = returned \cup {<<pdu, cache[CacheKey(pdu)]>>}
    /\ UNCHANGED <<heap, cache, assigned>>

FactoryMiss(pdu) ==
    /\ CacheKey(pdu) \notin DOMAIN cache
    /\ LET made == function_factory(pdu)
           id == Alloc(heap)
       IN  IF made.status = "ok"
           THEN /\ Cardinality(DOMAIN cache) < MaxCache
                /\ heap' = (id :> made.self) @@ heap
                /\ cache' = (CacheKey(pdu) :> id) @@ cache
                /\ result' = [NoResult EXCEPT !.status = "ok",
                                              !.returns = "instance",
                                              !.instance = id]
                /\ returned' = returned \cup {<<pdu, id>>}
           ELSE /\ result' = [NoResult EXCEPT !.status = made.status]
                /\ UNCHANGED <<heap, cache, returned>>
    /\ op' = [NoOp EXCEPT !.name = "function_factory", !.pdu = pdu]
    /\ UNCHANGED assigned

(***************************************************************************)
(* instance.value = value                                                  *)
(***************************************************************************)
SetValue(id, value) ==
    /\ id \in DOMAIN heap
    /\ heap[id].cls \in WriteClasses
    /\ LET set == set_value(heap[id], value)
       IN  /\ heap' = IF set.status = "ok"
                      THEN [heap EXCEPT ![id] = set.self]
                      ELSE heap
           /\ result' = [NoResult EXCEPT !.status = set.status]
           /\ assigned' = IF set.status = "ok"
                          THEN (id :> value) @@ assigned
                          ELSE assigned
    /\ op' = [NoOp EXCEPT !.name = "value", !.self = id, !.args = <<value>>]
    /\ UNCHANGED <<cache, returned>>

(***************************************************************************)
(* WriteSingleValueFunction.create_response_pdu()                          *)
(***************************************************************************)
WriteSingleValueFunction_create_response_pdu(self) ==
    pack_BHH(function_code(self.cls), self.address, self.value)

WriteResponse(id) ==
    /\ id \in DOMAIN heap
    /\ heap[id].cls \in WriteClasses
    /\ LET packed == WriteSingleValueFunction_create_response_pdu(heap[id])
       IN  result' = [NoResult EXCEPT !.status = packed.status,
                                      !.returns = IF packed.status = "ok"
                                                  THEN "bytes" ELSE "",
                                      !.bytes = packed.bytes]
    /\ op' = [NoOp EXCEPT !.name = "create_response_pdu", !.self = id]
    /\ UNCHANGED <<heap, cache, returned, assigned>>

(***************************************************************************)
(* The route map and the endpoints it holds.  A route map is a sequence of *)
(* rules; match answers with the endpoint of the first rule that covers    *)
(* (slave_id, function_code, address), and with None when no rule does.    *)
(***************************************************************************)
None == "None"

RuleMatches(rule, slave_id, code, address) ==
    /\ slave_id \in rule.slave_ids
    /\ code \in rule.function_codes
    /\ rule.first <= address
    /\ address <= rule.last

RECURSIVE match(_, _, _, _)
match(route_map, slave_id, code, address) ==
    IF route_map = <<>>
    THEN None
    ELSE IF RuleMatches(Head(route_map), slave_id, code, address)
         THEN Head(route_map).endpoint
         ELSE match(Tail(route_map), slave_id, code, address)

\* What a read endpoint returns: "odd" is the endpoint of the tests,
\* address % 2; "unit" answers with the slave id.
Endpoint(endpoint, slave_id, address) ==
    IF endpoint = "odd" THEN address % 2 ELSE slave_id

Rule(endpoint, slave_ids, first, last) ==
    [endpoint |-> endpoint, slave_ids |-> slave_ids, function_codes |-> 1..6,
     first |-> first, last |-> last]

SlaveIds == {1, 2}

\* The route maps handed to execute: the empty Map(), one endpoint for
\* everything, a map that ends after address 101, a map with a hole at 100
\* and 65535, and a map of two endpoints that serves addresses 100..102 of
\* slave 1 only.
RouteMaps ==
    { <<>>,
      <<Rule("odd", SlaveIds, 0, 70000)>>,
      <<Rule("odd", SlaveIds, 0, 101)>>,
      <<Rule("odd", SlaveIds, 101, 65534), Rule("unit", SlaveIds, 65536, 70000)>>,
      <<Rule("unit", {1}, 100, 100), Rule("odd", {1}, 0, 102)>> }

(***************************************************************************)
(* ReadFunction.execute                                                    *)
(***************************************************************************)
\* The state of the loop: the values collected, the lookups and the endpoint
\* calls made so far (and the order of the two in events), and whether a
\* call of None has raised TypeError.
NoTrace == [raised |-> FALSE, values |-> <<>>, lookups |-> <<>>, calls |-> <<>>,
            events |-> <<>>]

\* A loop body that calls every endpoint with the starting address.
ReadFunction_body_first_address(self, slave_id, route_map, address, done) ==
    LET code == function_code(self.cls)
        endpoint == match(route_map, slave_id, code, address)
        looked == Append(done.lookups, <<slave_id, code, address>>)
        matched == Append(done.events, <<"match", address>>)
    IN  IF endpoint = None
        THEN [done EXCEPT !.raised = TRUE, !.lookups = looked,
                          !.events = matched]
        ELSE [done EXCEPT
                !.values = Append(done.values,
                                  Endpoint(endpoint, slave_id,
                                           self.starting_address)),
                !.lookups = looked,
                !.calls = Append(done.calls,
                                 [endpoint |-> endpoint, slave_id |-> slave_id,
                                  address |-> self.starting_address]),
                !.events = Append(matched, <<"call", self.starting_address>>)]

\* A loop body that brings the address back into 16 bits.
ReadFunction_body_wrapping(self, slave_id, route_map, address, done) ==
    LET code == function_code(self.cls)
        wrapped == address % 65536
        endpoint == match(route_map, slave_id, code, wrapped)
        looked == Append(done.lookups, <<slave_id, code, wrapped>>)
        matched == Append(done.events, <<"match", wrapped>>)
    IN  IF endpoint = None
        THEN [done EXCEPT !.raised = TRUE, !.lookups = looked,
                          !.events = matched]
        ELSE [done EXCEPT
                !.values = Append(done.values,
                                  Endpoint(endpoint, slave_id, wrapped)),
                !.lookups = looked,
                !.calls = Append(done.calls,
                                 [endpoint |-> endpoint, slave_id |-> slave_id,
                                  address |-> wrapped]),
                !.events = Append(matched, <<"call", wrapped>>)]

\* The body of the for loop at one address.
ReadFunction_body(self, slave_id, route_map, address, done) ==
    LET code == function_code(self.cls)
        endpoint == match(route_map, slave_id, code, address)
        looked == Append(done.lookups, <<slave_id, code, address>>)
        matched == Append(done.events, <<"match", address>>)
    IN  IF endpoint = None
        THEN [done EXCEPT !.raised = TRUE, !.lookups = looked,
                          !.events = matched]
        ELSE [done EXCEPT
                !.values = Append(done.values,
                                  Endpoint(endpoint, slave_id, address)),
                !.lookups = looked,
                !.calls = Append(done.calls,
                                 [endpoint |-> endpoint, slave_id |-> slave_id,
                                  address |-> address]),
                !.events = Append(matched, <<"call", address>>)]

\* for address in range(first, stop), left to right and ending at the first
\* address that raises; the range is walked in halves to keep the
\* evaluation shallow.
RECURSIVE ReadFunction_for(_, _, _, _, _, _)
ReadFunction_for(self, slave_id, route_map, first, stop, done) ==
    IF done.raised \/ first >= stop
    THEN done
    ELSE IF stop - first = 1
         THEN ReadFunction_body(self, slave_id, route_map, first, done)
         ELSE LET middle == first + ((stop - first) \div 2)
              IN  ReadFunction_for(self, slave_id, route_map, middle, stop,
                    ReadFunction_for(self, slave_id, route_map, first, middle,
                                     done))

\* An except clause that hands back the values read so far.
ReadFunction_except_partial(done) ==
    [status |-> "ok", returns |-> "values", values |-> done.values,
     lookups |-> done.lookups, calls |-> done.calls, events |-> done.events]

\* The except clause: the values read so far are dropped and
\* IllegalDataAddressError is raised.
ReadFunction_except(done) ==
    [status |-> "IllegalDataAddressError", returns |-> "", values |-> <<>>,
     lookups |-> done.lookups, calls |-> done.calls, events |-> done.events]

\* An execute in two passes: every address is looked up first, and the
\* endpoints are called only when none was missing.
ReadFunction_execute_lookup_first(self, slave_id, route_map) ==
    LET code == function_code(self.cls)
        at(i) == self.starting_address + i - 1
        found(i) == match(route_map, slave_id, code, at(i))
        missing == {i \in 1..self.quantity : found(i) = None}
        last == IF missing = {}
                THEN self.quantity
                ELSE CHOOSE i \in missing : \A j \in missing : i <= j
        looked == [i \in 1..last |-> <<slave_id, code, at(i)>>]
        matched == [i \in 1..last |-> <<"match", at(i)>>]
    IN  IF missing # {}
        THEN [status |-> "IllegalDataAddressError", returns |-> "",
              values |-> <<>>, lookups |-> looked, calls |-> <<>>,
              events |-> matched]
        ELSE [status |-> "ok", returns |-> "values",
              values |-> [i \in 1..last |-> Endpoint(found(i), slave_id, at(i))],
              lookups |-> looked,
              calls |-> [i \in 1..last |->
                           [endpoint |-> found(i), slave_id |-> slave_id,
                            address |-> at(i)]],
              events |-> matched \o [i \in 1..last |-> <<"call", at(i)>>]]

ReadFunction_execute(self, slave_id, route_map) ==
    LET done == ReadFunction_for(self, slave_id, route_map,
                                 self.starting_address,
                                 self.starting_address + self.quantity, NoTrace)
    IN  IF done.raised
        THEN ReadFunction_except(done)
        ELSE [status |-> "ok", returns |-> "values", values |-> done.values,
              lookups |-> done.lookups, calls |-> done.calls,
              events |-> done.events]

ReadExecute(id, slave_id, route_map) ==
    /\ id \in DOMAIN heap
    /\ heap[id].cls \in ReadClasses
    /\ LET out == ReadFunction_execute(heap[id], slave_id, route_map)
       IN  result' = [NoResult EXCEPT !.status = out.status,
                                      !.returns = out.returns,
                                      !.values = out.values,
                                      !.lookups = out.lookups,
                                      !.calls = out.calls,
                                      !.events = out.events]
    /\ op' = [NoOp EXCEPT !.name = "execute", !.self = id,
                          !.slave_id = slave_id, !.route_map = route_map]
    /\ UNCHANGED <<heap, cache, returned, assigned>>

(***************************************************************************)
(* WriteSingleValueFunction.execute                                        *)
(***************************************************************************)
\* An execute that swallows the TypeError of calling None.
WriteSingleValueFunction_execute_silent(self, slave_id, route_map) ==
    LET code == function_code(self.cls)
        endpoint == match(route_map, slave_id, code, self.address)
        looked == <<<<slave_id, code, self.address>>>>
    IN  IF endpoint = None
        THEN [status |-> "ok", returns |-> "None", lookups |-> looked,
              calls |-> <<>>]
        ELSE [status |-> "ok", returns |-> "None", lookups |-> looked,
              calls |-> <<[endpoint |-> endpoint, slave_id |-> slave_id,
                           address |-> self.address, value |-> self.value]>>]

WriteSingleValueFunction_execute(self, slave_id, route_map) ==
    LET code == function_code(self.cls)
        endpoint == match(route_map, slave_id, code, self.address)
        looked == <<<<slave_id, code, self.address>>>>
    IN  IF endpoint = None
        THEN [status |-> "IllegalDataAddressError", returns |-> "",
              lookups |-> looked, calls |-> <<>>]
        ELSE [status |-> "ok", returns |-> "None", lookups |-> looked,
              calls |-> <<[endpoint |-> endpoint, slave_id |-> slave_id,
                           address |-> self.address, value |-> self.value]>>]

WriteExecute(id, slave_id, route_map) ==
    /\ id \in DOMAIN heap
    /\ heap[id].cls \in WriteClasses
    /\ LET out == WriteSingleValueFunction_execute(heap[id], slave_id, route_map)
       IN  result' = [NoResult EXCEPT !.status = out.status,
                                      !.returns = out.returns,
                                      !.lookups = out.lookups,
                                      !.calls = out.calls]
    /\ op' = [NoOp EXCEPT !.name = "execute", !.self = id,
                          !.slave_id = slave_id, !.route_map = route_map]
    /\ UNCHANGED <<heap, cache, returned, assigned>>

(***************************************************************************)
(* Construction by the caller: cls(first, second) and                      *)
(* cls.create_from_request_pdu(pdu).  The caller lets go of the instance   *)
(* it held before (the cache keeps its own) and holds the new instance, or *)
(* none when the constructor raised.                                       *)
(***************************************************************************)
Classes == ReadClasses \cup WriteClasses

Addresses == {100}

\* Second argument of a constructor: a quantity or a value.
Arguments == {-1, 0, 1, 3, 5, 125, 126, 2000, 2001, 32000, 65280, 65535, 65536}

Kept(h, c) == [i \in DOMAIN h \cap Cached(c) |-> h[i]]

Keep(made) ==
    /\ IF made.status = "ok"
       THEN LET id == Alloc(Kept(heap, cache))
            IN  /\ heap' = (id :> made.self) @@ Kept(heap, cache)
                /\ result' = [NoResult EXCEPT !.status = "ok",
                                              !.returns = "instance",
                                              !.instance = id]
       ELSE /\ heap' = Kept(heap, cache)
            /\ result' = [NoResult EXCEPT !.status = made.status]
    /\ assigned' = Kept(assigned, cache)

Construct(cls, first, second) ==
    /\ Keep(new(cls, first, second))
    /\ op' = [NoOp EXCEPT !.name = "__init__", !.cls = cls,
                          !.args = <<first, second>>]
    /\ UNCHANGED <<cache, returned>>

CreateFromRequestPdu(cls, pdu) ==
    /\ Keep(create_from_request_pdu(cls, pdu))
    /\ op' = [NoOp EXCEPT !.name = "create_from_request_pdu", !.cls = cls,
                          !.pdu = pdu]
    /\ UNCHANGED <<cache, returned>>

(***************************************************************************)
(* SingleBitResponse.create_response_pdu(data)                             *)
(***************************************************************************)
\* range(start, stop, step) for a positive step.
RECURSIVE range(_, _, _)
range(start, stop, step) ==
    IF start >= stop THEN <<>> ELSE <<start>> \o range(start + step, stop, step)

\* data[i:j] for 0 <= i <= j.
Slice(data, i, j) ==
    SubSeq(data, i + 1, IF j < Len(data) THEN j ELSE Len(data))

\* A chunk left in its order: the first value lands in the highest bit.
reversed_not(s) == s

reversed(s) == [k \in 1..Len(s) |-> s[Len(s) + 1 - k]]

\* reduce(lambda a, b: (a << 1) + b, s) for a non-empty s.
RECURSIVE reduce_from(_, _)
reduce_from(a, s) ==
    IF s = <<>> THEN a ELSE reduce_from(a * 2 + Head(s), Tail(s))

reduce(s) == reduce_from(Head(s), Tail(s))

\* struct.pack('>BB' + 'B' * len(rest), first, second, *rest)
pack_BB_Bs(first, second, rest) ==
    IF IsB(first) /\ IsB(second) /\ \A k \in DOMAIN rest : IsB(rest[k])
    THEN [status |-> "ok", bytes |-> <<first, second>> \o rest]
    ELSE [status |-> "struct.error", bytes |-> <<>>]

SingleBitResponse_create_response_pdu(self, data) ==
    LET starts == range(0, Len(data), 8)
        chunks == [k \in DOMAIN starts |-> Slice(data, starts[k], starts[k] + 8)]
        bytes_ == [k \in DOMAIN chunks |-> reduce(reversed(chunks[k]))]
    IN  pack_BB_Bs(function_code(self.cls), Len(bytes_), bytes_)

SingleBitResponse(id, data) ==
    /\ id \in DOMAIN heap
    /\ heap[id].cls \in SingleBitClasses
    /\ LET packed == SingleBitResponse_create_response_pdu(heap[id], data)
       IN  result' = [NoResult EXCEPT !.status = packed.status,
                                      !.returns = IF packed.status = "ok"
                                                  THEN "bytes" ELSE "",
                                      !.bytes = packed.bytes]
    /\ op' = [NoOp EXCEPT !.name = "create_response_pdu", !.self = id,
                          !.data = data]
    /\ UNCHANGED <<heap, cache, returned, assigned>>

\* The sequences of 0 and 1 of length at most n.
BitSeqs(n) == UNION {[1..k -> {0, 1}] : k \in 0..n}

(***************************************************************************)
(* MultiBitResponse.create_response_pdu(data)                              *)
(***************************************************************************)
\* struct.pack('>BB' + 'H' * len(rest), first, second, *rest)
pack_BB_Hs(first, second, rest) ==
    IF IsB(first) /\ IsB(second) /\ \A k \in DOMAIN rest : IsH(rest[k])
    THEN [status |-> "ok",
          bytes |-> <<first, second>> \o
                    [i \in 1..(2 * Len(rest)) |-> bytes_H(rest[(i + 1) \div 2])[2 - (i % 2)]]]
    ELSE [status |-> "struct.error", bytes |-> <<>>]

\* A byte count that counts the values in place of their bytes.
MultiBitResponse_create_response_pdu_count_values(self, data) ==
    pack_BB_Hs(function_code(self.cls), Len(data), data)

MultiBitResponse_create_response_pdu(self, data) ==
    pack_BB_Hs(function_code(self.cls), Len(data) * 2, data)

MultiBitResponse(id, data) ==
    /\ id \in DOMAIN heap
    /\ heap[id].cls \in MultiBitClasses
    /\ LET packed == MultiBitResponse_create_response_pdu(heap[id], data)
       IN  result' = [NoResult EXCEPT !.status = packed.status,
                                      !.returns = IF packed.status = "ok"
                                                  THEN "bytes" ELSE "",
                                      !.bytes = packed.bytes]
    /\ op' = [NoOp EXCEPT !.name = "create_response_pdu", !.self = id,
                          !.data = data]
    /\ UNCHANGED <<heap, cache, returned, assigned>>

\* Register values handed to the packing: both bytes zero, the low byte
\* zero, the value of the tests, and the largest.
RegisterValues == {0, 256, 1337, 65535}

\* The sequences of register values of length at most n.
RegisterSeqs(n) == UNION {[1..k -> RegisterValues] : k \in 0..n}

(***************************************************************************)
(* Spec: the factory and its process-wide cache, with the instances it     *)
(* hands out in the hands of its callers.                                  *)
(***************************************************************************)
Init ==
    /\ heap = <<>>
    /\ cache = <<>>
    /\ op = NoOp
    /\ result = NoResult
    /\ returned = {}
    /\ assigned = <<>>

Next ==
    \/ \E pdu \in PDUs : FactoryHit(pdu)
    \/ \E pdu \in PDUs : FactoryMiss(pdu)
    \/ \E id \in DOMAIN heap, value \in Values : SetValue(id, value)
    \/ \E id \in DOMAIN heap : WriteResponse(id)

Spec == Init /\ [][Next]_vars

(***************************************************************************)
(* SpecInstance: one function instance in the hands of its caller, from    *)
(* construction through assignment, execution and response.                *)
(***************************************************************************)
NextInstance ==
    \/ \E cls \in Classes, first \in Addresses, second \in Arguments :
          Construct(cls, first, second)
    \/ \E cls \in Classes, pdu \in PDUs :
          /\ unpack_B(pdu) = function_code(cls)
          /\ CreateFromRequestPdu(cls, pdu)
    \/ \E id \in DOMAIN heap, value \in Values : SetValue(id, value)
    \/ \E id \in DOMAIN heap, slave_id \in SlaveIds, route_map \in RouteMaps :
          ReadExecute(id, slave_id, route_map)
    \/ \E id \in DOMAIN heap, slave_id \in SlaveIds, route_map \in RouteMaps :
          WriteExecute(id, slave_id, route_map)
    \/ \E id \in DOMAIN heap : WriteResponse(id)

SpecInstance == Init /\ [][NextInstance]_vars

(***************************************************************************)
(* SpecSingleBit: the bit packing of a ReadCoils or ReadDiscreteInputs     *)
(* instance, applied to every sequence of bits up to MaxData.              *)
(***************************************************************************)
\* The instance and the data of the call to come.
InitSingleBit ==
    /\ \E cls \in SingleBitClasses : heap = (1 :> new(cls, 100, 3).self)
    /\ cache = <<>>
    /\ \E data \in BitSeqs(MaxData) : op = [NoOp EXCEPT !.data = data]
    /\ result = NoResult
    /\ returned = {}
    /\ assigned = <<>>

NextSingleBit == op.name = "" /\ SingleBitResponse(1, op.data)

SpecSingleBit == InitSingleBit /\ [][NextSingleBit]_vars

(***************************************************************************)
(* SpecMultiBit: the register packing of a ReadHoldingRegisters or         *)
(* ReadInputRegisters instance, applied to every sequence of register      *)
(* values up to MaxRegisters.                                              *)
(***************************************************************************)
InitMultiBit ==
    /\ \E cls \in MultiBitClasses : heap = (1 :> new(cls, 100, 3).self)
    /\ cache = <<>>
    /\ \E data \in RegisterSeqs(MaxRegisters) : op = [NoOp EXCEPT !.data = data]
    /\ result = NoResult
    /\ returned = {}
    /\ assigned = <<>>

NextMultiBit == op.name = "" /\ MultiBitResponse(1, op.data)

SpecMultiBit == InitMultiBit /\ [][NextMultiBit]_vars

(***************************************************************************)
(* Properties.                                                             *)
(***************************************************************************)
\* The unsigned 16-bit value of two bytes, high-order byte first.
BigEndian(high, low) == 256 * high + low

\* The class a function code stands for.
VariantOf(code) ==
    CASE code = 1 -> "ReadCoils"
      [] code = 2 -> "ReadDiscreteInputs"
      [] code = 3 -> "ReadHoldingRegisters"
      [] code = 4 -> "ReadInputRegisters"
      [] code = 5 -> "WriteSingleCoil"
      [] code = 6 -> "WriteSingleRegister"

\* The largest quantity of a read variant.
LargestQuantity(cls) == IF cls \in {"ReadCoils", "ReadDiscreteInputs"} THEN 2000 ELSE 125

\* A request PDU of one of the six codes whose fields are valid for the code.
ValidRequest(pdu) ==
    LET second == BigEndian(pdu[4], pdu[5])
    IN  /\ Len(pdu) = 5
        /\ pdu[1] \in 1..6
        /\ pdu[1] \in 1..4 => second >= 1 /\ second <= LargestQuantity(VariantOf(pdu[1]))
        /\ pdu[1] = 5 => second \in {0, 65280}

\* The two fields of an instance, in the order of the PDU.
FieldsOf(instance) ==
    IF instance.cls \in ReadClasses
    THEN <<instance.starting_address, instance.quantity>>
    ELSE <<instance.address, instance.value>>

\* C1: every call of function_factory with a valid request PDU of codes 1..6,
\* cache miss or cache hit, returns an instance of the variant registered for
\* the code whose two fields are the big-endian values of bytes 2-3 and 4-5.
C1_FactoryDecodesEveryCall ==
    (op.name = "function_factory" /\ ValidRequest(op.pdu)) =>
        /\ result.status = "ok"
        /\ result.instance \in DOMAIN heap
        /\ heap[result.instance].cls = VariantOf(op.pdu[1])
        /\ FieldsOf(heap[result.instance]) =
             <<BigEndian(op.pdu[2], op.pdu[3]), BigEndian(op.pdu[4], op.pdu[5])>>

\* C2: of all the instances function_factory has returned, two returned for
\* the same PDU bytes are the same instance and two returned for PDUs that
\* differ in a byte are different instances; the cache holds each returned
\* instance under the raw bytes of its PDU.
C2_CacheKeyedOnRawBytes ==
    /\ \A x \in returned, y \in returned : (x[1] = y[1]) <=> (x[2] = y[2])
    /\ \A x \in returned : x[1] \in DOMAIN cache /\ cache[x[1]] = x[2]

\* A call answered from the cache (the instance is older than the newest
\* one) after two different PDUs have been served.
C2_Witness ==
    /\ op.name = "function_factory"
    /\ result.status = "ok"
    /\ result.instance = 1
    /\ 2 \in DOMAIN heap
    /\ \E x \in returned, y \in returned : x[1] # y[1] /\ x[2] # y[2]

\* The addresses of a read function, in the order execute visits them.
AddressOf(instance, i) == instance.starting_address + i - 1

\* The endpoint the route map of the last execute holds for an address.
Routed(instance, address) ==
    match(op.route_map, op.slave_id, function_code(instance.cls), address)

ReadExecuted ==
    /\ op.name = "execute"
    /\ op.self \in DOMAIN heap
    /\ heap[op.self].cls \in ReadClasses

\* C3: a read execute over a range with an address the route map has no
\* endpoint for raises IllegalDataAddressError and returns no values.
C3_MissingAddressNoPartialValues ==
    (/\ ReadExecuted
     /\ \E i \in 1..heap[op.self].quantity :
           Routed(heap[op.self], AddressOf(heap[op.self], i)) = None) =>
        /\ result.status = "IllegalDataAddressError"
        /\ result.returns = ""
        /\ result.values = <<>>

\* A read that called an endpoint before it met the address without one.
C3_Witness ==
    /\ ReadExecuted
    /\ result.status = "IllegalDataAddressError"
    /\ Len(result.calls) >= 1
    /\ heap[op.self].quantity > Len(result.calls)

\* C4: a read execute over a range in which every address has an endpoint
\* returns quantity values, the i-th being what the endpoint of address
\* starting_address + i - 1 returned for (slave_id, that address); the
\* addresses are looked up in ascending order and each endpoint is called
\* once.
C4_ReadReturnsValuesInOrder ==
    (/\ ReadExecuted
     /\ \A i \in 1..heap[op.self].quantity :
           Routed(heap[op.self], AddressOf(heap[op.self], i)) # None) =>
        LET self == heap[op.self]
        IN  /\ result.status = "ok"
            /\ result.returns = "values"
            /\ Len(result.values) = self.quantity
            /\ Len(result.calls) = self.quantity
            /\ Len(result.lookups) = self.quantity
            /\ \A i \in 1..self.quantity :
                 /\ result.lookups[i] =
                      <<op.slave_id, function_code(self.cls), AddressOf(self, i)>>
                 /\ result.calls[i] =
                      [endpoint |-> Routed(self, AddressOf(self, i)),
                       slave_id |-> op.slave_id, address |-> AddressOf(self, i)]
                 /\ result.values[i] =
                      Endpoint(Routed(self, AddressOf(self, i)), op.slave_id,
                               AddressOf(self, i))

\* A read of three addresses served by two endpoints: "unit" answers for
\* address 100 of slave 1, "odd" for 101 and 102.
C4_Witness ==
    /\ ReadExecuted
    /\ result.status = "ok"
    /\ heap[op.self].quantity = 3
    /\ result.calls[1].endpoint # result.calls[2].endpoint
    /\ result.values = <<1, 1, 0>>

WriteExecuted ==
    /\ op.name = "execute"
    /\ op.self \in DOMAIN heap
    /\ heap[op.self].cls \in WriteClasses

\* C5: a write execute looks up (slave_id, function_code, address) once; with
\* an endpoint it calls it once with slave_id, address and the current value
\* and returns None; without one it raises IllegalDataAddressError and calls
\* nothing.
C5_WriteExecute ==
    WriteExecuted =>
        LET self == heap[op.self]
            endpoint == Routed(self, self.address)
        IN  /\ result.lookups =
                 <<<<op.slave_id, function_code(self.cls), self.address>>>>
            /\ IF endpoint # None
               THEN /\ result.status = "ok"
                    /\ result.returns = "None"
                    /\ result.calls =
                         <<[endpoint |-> endpoint, slave_id |-> op.slave_id,
                            address |-> self.address, value |-> self.value]>>
               ELSE /\ result.status = "IllegalDataAddressError"
                    /\ result.returns = ""
                    /\ result.calls = <<>>

\* A write that handed its endpoint a value assigned after construction.
C5_Witness ==
    /\ WriteExecuted
    /\ result.status = "ok"
    /\ result.calls[1].value = 4660

ReadConstructed ==
    /\ op.name \in {"__init__", "create_from_request_pdu"}
    /\ op.cls \in ReadClasses

\* The quantity a construction was asked for.
QuantityAsked ==
    IF op.name = "__init__" THEN op.args[2] ELSE BigEndian(op.pdu[4], op.pdu[5])

\* C6: constructing a read variant, directly or from a request PDU, with a
\* quantity below 1 or above 2000 (coils, discrete inputs) or 125 (holding,
\* input registers) raises IllegalDataValueError and yields no instance; any
\* other quantity, 1 and the maximum included, is stored.
C6_QuantityBounds ==
    ReadConstructed =>
        IF QuantityAsked < 1 \/ QuantityAsked > LargestQuantity(op.cls)
        THEN /\ result.status = "IllegalDataValueError"
             /\ result.instance = 0
             /\ heap = <<>>
        ELSE /\ result.status = "ok"
             /\ result.instance \in DOMAIN heap
             /\ heap[result.instance].cls = op.cls
             /\ heap[result.instance].quantity = QuantityAsked

\* A register read built from a request PDU with the largest quantity.
C6_Witness ==
    /\ op.name = "create_from_request_pdu"
    /\ op.cls = "ReadHoldingRegisters"
    /\ result.status = "ok"
    /\ heap[result.instance].quantity = 125

WriteConstructed(cls) ==
    /\ op.name \in {"__init__", "create_from_request_pdu"}
    /\ op.cls = cls

ValueAssigned(cls) ==
    /\ op.name = "value"
    /\ op.self \in DOMAIN heap
    /\ heap[op.self].cls = cls

\* The value a construction or an assignment was asked for.
ValueAsked ==
    CASE op.name = "__init__" -> op.args[2]
      [] op.name = "value" -> op.args[1]
      [] OTHER -> BigEndian(op.pdu[4], op.pdu[5])

\* What the last construction of, or assignment to, an instance of cls must
\* have come to, `legal` telling whether the value asked for is one the
\* class takes.
ValueSettled(cls, legal) ==
    /\ WriteConstructed(cls) =>
         IF legal
         THEN /\ result.status = "ok"
              /\ result.instance \in DOMAIN heap
              /\ heap[result.instance].value = ValueAsked
         ELSE /\ result.status = "IllegalDataValueError"
              /\ result.instance = 0
              /\ heap = <<>>
    /\ ValueAssigned(cls) =>
         IF legal
         THEN result.status = "ok" /\ heap[op.self].value = ValueAsked
         ELSE result.status = "IllegalDataValueError"

\* C7: the value of every WriteSingleCoil instance is 0x0000 or 0xFF00;
\* constructing with or assigning another value raises
\* IllegalDataValueError, constructing with or assigning one of the two
\* stores it.
C7_CoilValue ==
    /\ \A id \in DOMAIN heap :
         heap[id].cls = "WriteSingleCoil" => heap[id].value \in {0, 65280}
    /\ ValueSettled("WriteSingleCoil", ValueAsked \in {0, 65280})

\* An assignment of a value that is neither, refused on a live instance.
C7_Witness ==
    /\ ValueAssigned("WriteSingleCoil")
    /\ ValueAsked = 4660
    /\ result.status = "IllegalDataValueError"

\* C8: the value of every WriteSingleRegister instance is within 0..0xFFFF;
\* constructing with or assigning a value outside raises
\* IllegalDataValueError, and a value inside is stored as it is.
C8_RegisterValue ==
    /\ \A id \in DOMAIN heap :
         heap[id].cls = "WriteSingleRegister" =>
            heap[id].value >= 0 /\ heap[id].value <= 65535
    /\ ValueSettled("WriteSingleRegister", ValueAsked >= 0 /\ ValueAsked <= 65535)

\* An assignment of 0x10000, refused on a live instance.
C8_Witness ==
    /\ ValueAssigned("WriteSingleRegister")
    /\ ValueAsked = 65536
    /\ result.status = "IllegalDataValueError"

\* C9: create_response_pdu() of the instance function_factory has just
\* returned for a valid write request PDU gives back the bytes of the
\* request.
C9_WriteResponseEchoesRequest ==
    [][(/\ op.name = "function_factory"
        /\ result.status = "ok"
        /\ op.pdu[1] \in {5, 6}
        /\ ValidRequest(op.pdu)
        /\ op'.name = "create_response_pdu"
        /\ op'.self = result.instance) =>
           (result'.status = "ok" /\ result'.bytes = op.pdu)]_vars

\* The smallest n with 8 * n >= length.
CeilingOfEighth(length) ==
    CHOOSE n \in 0..length : 8 * n >= length /\ (n = 0 \/ 8 * (n - 1) < length)

\* Element j (from 0) of the data, 0 past its end.
BitAt(data, j) == IF j < Len(data) THEN data[j + 1] ELSE 0

\* Byte k (from 0) of the packed data: bit i is element 8k + i.
PackedByte(data, k) ==
    BitAt(data, 8 * k) + 2 * BitAt(data, 8 * k + 1) + 4 * BitAt(data, 8 * k + 2)
    + 8 * BitAt(data, 8 * k + 3) + 16 * BitAt(data, 8 * k + 4)
    + 32 * BitAt(data, 8 * k + 5) + 64 * BitAt(data, 8 * k + 6)
    + 128 * BitAt(data, 8 * k + 7)

C12_UnknownCodeUnsupported ==
    (op.name = "function_factory" /\ op.pdu[1] \notin 1..6) =>
        /\ result.status \notin {"ok", "IllegalDataValueError",
                                 "IllegalDataAddressError"}
        /\ result.returns = ""
        /\ result.instance = 0
        /\ op.pdu \notin DOMAIN cache
        /\ \A x \in returned : x[1] # op.pdu

\* Function code 7 refused with KeyError by a factory that has served other
\* PDUs.
C12_Witness ==
    /\ op.name = "function_factory"
    /\ op.pdu[1] = 7
    /\ result.status = "KeyError"
    /\ cache # <<>>

\* The lowest i for which address starting_address + i - 1 of the last read
\* execute has no endpoint, and quantity + 1 when every address has one.
LowestUnrouted(instance) ==
    CHOOSE m \in 1..(instance.quantity + 1) :
        /\ m <= instance.quantity => Routed(instance, AddressOf(instance, m)) = None
        /\ \A i \in 1..(m - 1) : Routed(instance, AddressOf(instance, i)) # None

\* C13: a read execute looks up and calls address by address: the endpoint of
\* an address is called right after its lookup and before the next address
\* is looked up.  When the lowest address without an endpoint is the m-th of
\* the range, the endpoints of the m - 1 addresses before it have each been
\* called once, in order, when IllegalDataAddressError is raised, and no
\* address after the m-th is looked up or called.
C13_LookupAndCallInterleaved ==
    ReadExecuted =>
        LET self == heap[op.self]
            m == LowestUnrouted(self)
            missing == m <= self.quantity
            looked == IF missing THEN m ELSE self.quantity
        IN  /\ Len(result.lookups) = looked
            /\ Len(result.calls) = m - 1
            /\ Len(result.events) = looked + m - 1
            /\ \A i \in 1..looked :
                 /\ result.lookups[i][3] = AddressOf(self, i)
                 /\ result.events[2 * i - 1] = <<"match", AddressOf(self, i)>>
            /\ \A i \in 1..(m - 1) :
                 /\ result.calls[i].address = AddressOf(self, i)
                 /\ result.calls[i].endpoint = Routed(self, AddressOf(self, i))
                 /\ result.events[2 * i] = <<"call", AddressOf(self, i)>>
            /\ missing <=> result.status = "IllegalDataAddressError"

\* A read of more than three addresses that called the endpoints of its
\* first two, found none for the third and went no further.
C13_Witness ==
    /\ ReadExecuted
    /\ result.status = "IllegalDataAddressError"
    /\ heap[op.self].quantity > 3
    /\ result.events = <<<<"match", 100>>, <<"call", 100>>, <<"match", 101>>,
                         <<"call", 101>>, <<"match", 102>>>>

\* C14: function_factory hands out the object its cache holds.  Once a
\* caller has assigned a valid value to the write function cached for a PDU,
\* every call of function_factory with that PDU returns that instance with
\* the value last assigned, and its create_response_pdu() packs that value:
\* neither is what the PDU encodes when the assigned value is another.
C14_CachedInstanceCarriesAssignedValue ==
    \A pdu \in DOMAIN cache :
        cache[pdu] \in DOMAIN assigned =>
            LET id == cache[pdu]
                decoded == BigEndian(pdu[4], pdu[5])
            IN  /\ (op.name = "function_factory" /\ op.pdu = pdu) =>
                     /\ result.status = "ok"
                     /\ result.instance = id
                     /\ heap[id].value = assigned[id]
                     /\ assigned[id] # decoded => heap[id].value # decoded
                /\ (op.name = "create_response_pdu" /\ op.self = id) =>
                     /\ result.status = "ok"
                     /\ SubSeq(result.bytes, 1, 3) = SubSeq(pdu, 1, 3)
                     /\ BigEndian(result.bytes[4], result.bytes[5]) = assigned[id]
                     /\ assigned[id] # decoded => result.bytes # pdu

\* A cache hit for a write PDU that returns an instance whose value is the
\* one a caller assigned and no longer the one the PDU encodes.
C14_Witness ==
    /\ op.name = "function_factory"
    /\ result.status = "ok"
    /\ result.instance \in DOMAIN assigned
    /\ heap[result.instance].value = assigned[result.instance]
    /\ heap[result.instance].value # BigEndian(op.pdu[4], op.pdu[5])

\* C15: a read function decoded from a PDU whose starting_address + quantity
\* is above 65536 is constructed like any other, and its execute looks up
\* the integers starting_address, starting_address + 1, ... as they are,
\* those above 65535 included: none is reduced modulo 65536 and none is
\* refused before the route map is asked.
C15_AddressesPastSixteenBits ==
    /\ (/\ op.name = "create_from_request_pdu"
        /\ op.cls \in ReadClasses
        /\ QuantityAsked >= 1
        /\ QuantityAsked <= LargestQuantity(op.cls)
        /\ BigEndian(op.pdu[2], op.pdu[3]) + QuantityAsked > 65536) =>
           /\ result.status = "ok"
           /\ result.instance \in DOMAIN heap
           /\ heap[result.instance].starting_address = BigEndian(op.pdu[2], op.pdu[3])
           /\ heap[result.instance].quantity = QuantityAsked
    /\ (/\ ReadExecuted
        /\ heap[op.self].starting_address + heap[op.self].quantity > 65536) =>
           LET self == heap[op.self]
               m == LowestUnrouted(self)
           IN  /\ Len(result.lookups) = IF m <= self.quantity THEN m ELSE self.quantity
               /\ \A i \in 1..Len(result.lookups) :
                    result.lookups[i][3] = self.starting_address + i - 1
               /\ \A i \in 1..Len(result.calls) :
                    result.calls[i].address = self.starting_address + i - 1
               /\ m > self.quantity =>
                    /\ result.status = "ok"
                    /\ result.lookups[self.quantity][3] > 65535

\* The read of two addresses from 65535 on, which asked the route map for
\* 65535 and then for 65536 and called the endpoints of both.
C15_Witness ==
    /\ ReadExecuted
    /\ result.status = "ok"
    /\ heap[op.self].starting_address = 65535
    /\ Len(result.lookups) = 2
    /\ result.lookups[1][3] = 65535
    /\ result.lookups[2][3] = 65536
    /\ result.calls[2].address = 65536

====
